---- MODULE Spec2Model ----
(***************************************************************************)
(* Retrieval-augmented chat endpoint (src/app/api/chat/route.ts).          *)
(* The POST handler is modelled await by await: every await of the handler *)
(* is one step, so concurrent requests interleave exactly where the event  *)
(* loop can switch between them.  The streaming relay (the start callback  *)
(* of the ReadableStream) runs on after POST has returned its Response.    *)
(***************************************************************************)
EXTENDS Integers, Sequences, FiniteSets, TLC

\* Concurrent requests served by the one process.
Requests == {"r1", "r2"}

\* At most this many upstream events are delivered to one agent run.
MaxEvents == 2

\* Retrieval fan-out passed by POST (route.ts:234).
TopK == 6

(***************************************************************************)
(* JavaScript values that occur in request bodies and event payloads.      *)
(* A string is a sequence of characters.                                   *)
(***************************************************************************)
JsUndefined == [t |-> "undefined", s |-> <<>>, n |-> 0]
JsString(s) == [t |-> "string", s |-> s, n |-> 0]
JsNumber(n) == [t |-> "number", s |-> <<>>, n |-> n]

\* typeof v === "string"
IsString(v) == v.t = "string"

\* A test for presence only (v !== undefined) in place of truthiness.
TruthyIfDefined(v) == v.t # "undefined"

\* !v is false  (JavaScript truthiness of undefined, strings and numbers)
Truthy(v) ==
  CASE v.t = "string" -> Len(v.s) > 0
    [] v.t = "number" -> v.n # 0
    [] OTHER -> FALSE

\* The bytes TextEncoder.encode produces for one character (UTF-8).
Utf8(c) ==
  CASE c = "a" -> <<97>>
    [] c = "b" -> <<98>>
    [] c = "h" -> <<104>>
    [] c = "i" -> <<105>>
    [] c = "e'" -> <<195, 169>>
    [] OTHER -> <<239, 191, 189>>

\* encoder.encode(str): the UTF-8 bytes of the characters, in order.
RECURSIVE Encode(_)
Encode(s) == IF s = <<>> THEN <<>> ELSE Utf8(Head(s)) \o Encode(Tail(s))

\* Concatenation of a sequence of sequences.
RECURSIVE Flatten(_)
Flatten(ss) == IF ss = <<>> THEN <<>> ELSE Head(ss) \o Flatten(Tail(ss))

(***************************************************************************)
(* Request bodies.  request.json() either rejects (the body is not JSON)   *)
(* or yields the parsed value: null, or an object whose `message` is read  *)
(* by the destructuring at route.ts:225.                                   *)
(***************************************************************************)
Body(parses, json, message) == [parses |-> parses, json |-> json, message |-> message]

Hi == JsString(<<"h", "i">>)

Bodies ==
  { Body(FALSE, "none", JsUndefined),        \* not parsable
    Body(TRUE, "null", JsUndefined),         \* the JSON value null
    Body(TRUE, "object", JsUndefined),       \* {}  (field missing)
    Body(TRUE, "object", JsString(<<>>)),    \* {"message": ""}
    Body(TRUE, "object", JsNumber(7)),       \* {"message": 7}
    Body(TRUE, "object", Hi) }               \* {"message": "hi"}

(***************************************************************************)
(* Seed file data/resumeEmbeddings.json and the rag_embeddings table.      *)
(***************************************************************************)
Row(id, section, text, embedding) ==
  [id |-> id, section |-> section, chunk_text |-> text, embedding |-> embedding]

SeedRows ==
  << Row("p1", "experience", "t1", <<1, 0>>),
     Row("p2", "skills", "t2", <<0, 1>>) >>

\* Embeddings the embedding service may return for a question; the last one
\* has a length other than the column's dimension.
QuestionEmbeddings == { <<2, 1>>, <<1, 2>>, <<1>> }

(***************************************************************************)
(* `[${row.embedding.join(",")}]` and the `$n::vector` cast that reads it  *)
(* back.  A literal is the sequence of its tokens.                         *)
(***************************************************************************)
NumStr(n) ==
  CASE n = 0 -> "0" [] n = 1 -> "1" [] n = 2 -> "2" [] n = 3 -> "3" [] OTHER -> "NaN"

StrNum(s) ==
  CASE s = "0" -> 0 [] s = "1" -> 1 [] s = "2" -> 2 [] s = "3" -> 3 [] OTHER -> -1

RECURSIVE Join(_)
Join(arr) ==
  IF arr = <<>> THEN <<>>
  ELSE IF Len(arr) = 1 THEN <<NumStr(arr[1])>>
  ELSE <<NumStr(arr[1]), ",">> \o Join(Tail(arr))

toVectorLiteral(arr) == <<"[">> \o Join(arr) \o <<"]">>

\* The numbers of a literal: the tokens between the brackets, commas skipped.
ParseVector(lit) ==
  LET inner == SubSeq(lit, 2, Len(lit) - 1)
  IN  [i \in 1..((Len(inner) + 1) \div 2) |-> StrNum(inner[2 * i - 1])]

\* VECTOR(EMBEDDING_DIM): the dimension of the embedding column, which is the
\* length of the vectors of the seed file.
EMBEDDING_DIM == Len(SeedRows[1].embedding)

\* A plain INSERT into a table without the key: every row is appended.
InsertRowNoConflictClause(table, row) ==
  Append(table, Row(row.id, row.section, row.chunk_text, ParseVector(toVectorLiteral(row.embedding))))

\* ON CONFLICT (id) DO NOTHING: the stored row with that id is kept.
UpsertRowDoNothing(table, row) ==
  IF \E i \in 1..Len(table) : table[i].id = row.id
  THEN table
  ELSE Append(table, Row(row.id, row.section, row.chunk_text, ParseVector(toVectorLiteral(row.embedding))))

\* INSERT ... ON CONFLICT (id) DO UPDATE SET section, chunk_text, embedding:
\* the row with that id is replaced in place, a new id is appended.
UpsertRow(table, row) ==
  LET stored == Row(row.id, row.section, row.chunk_text, ParseVector(toVectorLiteral(row.embedding)))
  IN  IF \E i \in 1..Len(table) : table[i].id = row.id
      THEN [i \in 1..Len(table) |-> IF table[i].id = row.id THEN stored ELSE table[i]]
      ELSE Append(table, stored)

(***************************************************************************)
(* ORDER BY embedding <=> $1::vector LIMIT $2.  Cosine distance is         *)
(* 1 - dot/(|a||q|); rows are compared without roots by comparing          *)
(* sign(dot)*dot^2/|a|^2, cross-multiplied (|q| is common to all rows).    *)
(***************************************************************************)
RECURSIVE Dot(_, _)
Dot(a, b) == IF a = <<>> THEN 0 ELSE a[1] * b[1] + Dot(Tail(a), Tail(b))

SignedSquare(x) == IF x < 0 THEN 0 - x * x ELSE x * x

\* row a is strictly closer to q than row b
Closer(a, b, q) ==
  SignedSquare(Dot(a.embedding, q)) * Dot(b.embedding, b.embedding)
    > SignedSquare(Dot(b.embedding, q)) * Dot(a.embedding, a.embedding)

\* Insert row into a list sorted by distance, after the rows at equal distance.
RECURSIVE InsertByDistance(_, _, _)
InsertByDistance(sorted, row, q) ==
  IF sorted = <<>> THEN <<row>>
  ELSE IF Closer(row, Head(sorted), q) THEN <<row>> \o sorted
  ELSE <<Head(sorted)>> \o InsertByDistance(Tail(sorted), row, q)

RECURSIVE OrderByDistance(_, _)
OrderByDistance(table, q) ==
  IF table = <<>> THEN <<>>
  ELSE InsertByDistance(OrderByDistance(SubSeq(table, 1, Len(table) - 1), q), table[Len(table)], q)

\* The columns the similarity query selects.
Project(rows) ==
  [i \in 1..Len(rows) |-> [id |-> rows[i].id, section |-> rows[i].section, chunk_text |-> rows[i].chunk_text]]

\* LIMIT left out: every row comes back.
LimitIgnored(rows, k) == rows

Limit(rows, k) == SubSeq(rows, 1, IF Len(rows) < k THEN Len(rows) ELSE k)

\* The rows the similarity query of retrieveTopChunks returns: id, section
\* and chunk_text of the topK nearest rows.
SimilarityRows(table, q, topK) ==
  Project(Limit(OrderByDistance(table, q), topK))

\* `for (const row of rows) { await client.query(INSERT ... ON CONFLICT ...) }`
RECURSIVE UpsertAll(_, _)
UpsertAll(table, rows) ==
  IF rows = <<>> THEN table ELSE UpsertAll(UpsertRow(table, Head(rows)), Tail(rows))

(***************************************************************************)
(* The context of the prompt: chunks.map((chunk, index) => `Chunk          *)
(* ${index + 1} [${chunk.section} | ${chunk.id}]:\n${chunk.chunk_text}`)    *)
(* .join("\n\n").  A string is the sequence of its pieces: the literal     *)
(* parts of the template, the interpolated values, the separator.          *)
(***************************************************************************)
\* The block of the template with the index itself as the rank.
ContextBlockRankFromZero(chunk, index) ==
  << "Chunk ", NumStr(index), " [", chunk.section, " | ", chunk.id, "]:\n", chunk.chunk_text >>

\* index is the position map passes, counted from 0.
ContextBlock(chunk, index) ==
  << "Chunk ", NumStr(index + 1), " [", chunk.section, " | ", chunk.id, "]:\n", chunk.chunk_text >>

RECURSIVE JoinBlocks(_)
JoinBlocks(blocks) ==
  IF blocks = <<>> THEN <<>>
  ELSE IF Len(blocks) = 1 THEN blocks[1]
  ELSE blocks[1] \o <<"\n\n">> \o JoinBlocks(Tail(blocks))

Context(chunkList) ==
  JoinBlocks([i \in 1..Len(chunkList) |-> ContextBlock(chunkList[i], i - 1)])

(***************************************************************************)
(* cosineSimilarity(a, b) of the in-memory ranking.  The loop runs over    *)
(* the indices of a; b[i] beyond the end of b is undefined, and a product  *)
(* or a sum with undefined is NaN.  The score dot / (sqrt(normA) *         *)
(* sqrt(normB)) is kept as its three integers; 0 / 0 is NaN.               *)
(***************************************************************************)
NaN == [kind |-> "NaN", dot |-> 0, normA |-> 0, normB |-> 0]

Score(dot, normA, normB) == [kind |-> "number", dot |-> dot, normA |-> normA, normB |-> normB]

RECURSIVE CosineLoop(_, _, _, _)
CosineLoop(a, b, i, acc) ==
  IF i > Len(a) THEN acc
  ELSE IF acc.kind = "NaN" \/ i > Len(b) THEN CosineLoop(a, b, i + 1, NaN)
  ELSE CosineLoop(a, b, i + 1,
         Score(acc.dot + a[i] * b[i], acc.normA + a[i] * a[i], acc.normB + b[i] * b[i]))

cosineSimilarity(a, b) ==
  LET sums == CosineLoop(a, b, 1, Score(0, 0, 0))
  IN  IF sums.kind = "NaN" \/ sums.normA * sums.normB = 0 THEN NaN ELSE sums

(***************************************************************************)
(* Responses of POST.                                                      *)
(***************************************************************************)
NoResponse == [status |-> 0, kind |-> "none", error |-> "", details |-> ""]

\* Response.json({ error }, { status })
JsonError(status, error) == [status |-> status, kind |-> "json", error |-> error, details |-> ""]

\* Response.json({ error, details }, { status })
JsonErrorDetails(status, error, details) ==
  [status |-> status, kind |-> "json", error |-> error, details |-> details]

\* new Response(stream, { headers: text/plain ... })  (status defaults to 200)
StreamResponse == [status |-> 200, kind |-> "stream", error |-> "", details |-> ""]

ConnectFailedText == "Database connection failed. Check DATABASE_URL"

(***************************************************************************)
(* Events of a streamed agent run, as the relay's filter reads them:       *)
(* event.type, event.data?.type and event.data?.delta.                     *)
(***************************************************************************)
Event(type, dtype, delta) == [type |-> type, dtype |-> dtype, delta |-> delta]

Events ==
  { Event("raw_model_stream_event", "output_text_delta", JsString(<<"a">>)),
    Event("raw_model_stream_event", "output_text_delta", JsString(<<"e'", "b">>)),
    Event("raw_model_stream_event", "output_text_delta", JsString(<<>>)),
    Event("raw_model_stream_event", "output_text_delta", JsNumber(7)),
    Event("raw_model_stream_event", "response_done", JsString(<<"b">>)),
    Event("run_item_stream_event", "undefined", JsUndefined) }

\* A text delta and a tool event.
CoreEvents ==
  { Event("raw_model_stream_event", "output_text_delta", JsString(<<"a">>)),
    Event("run_item_stream_event", "undefined", JsUndefined) }

\* The filter without its test of event.data.type.
IsTextDeltaAnyDataType(event) ==
  /\ event.type = "raw_model_stream_event"
  /\ IsString(event.delta)
  /\ Len(event.delta.s) > 0

\* The condition of the if at route.ts:315-320.
IsTextDelta(event) ==
  /\ event.type = "raw_model_stream_event"
  /\ event.dtype = "output_text_delta"
  /\ IsString(event.delta)
  /\ Len(event.delta.s) > 0

\* State of a ReadableStream and its controller before start has run.
NoStream == [phase |-> "none", state |-> "none", cancelled |-> FALSE, calls |-> <<>>]

VARIABLES
  cfg,          \* module constants read from the environment (route.ts:15-28)
  pool,         \* the singleton pool exists (route.ts:29)
  checkedOut,   \* connections of the pool currently checked out
  sdk,          \* isAgentsSdkConfigured (route.ts:30)
  table,        \* rows of rag_embeddings, in insertion order
  pc,           \* where each request's POST is suspended
  body,         \* the body each request carries
  client,       \* POST's local `client` is set
  releases,     \* calls of client.release() per request
  resp,         \* the Response POST returned
  log,          \* external operations each request has started, in order
  fault,        \* the awaited operation of the request that threw, if any
  seedIdx,      \* next row of the seed loop of ensureRagTableAndSeed
  sawEmpty,     \* the request read count = 0 (route.ts:181)
  questionEmbedding, \* the vector embedText returned
  chunks,       \* rows retrieveTopChunks returned
  ctl,          \* the response stream: relay position, stream state, terminal calls
  upstream,     \* events the agent run has delivered to the relay so far
  out           \* chunks the relay has enqueued

\* Functions of the repository applied on their own to given arguments.
VARIABLES
  fn,           \* the function applied last
  args,         \* its arguments
  result        \* what it returned

pureVars == << fn, args, result >>

\* upsertEmbeddings(client) of the loading script, on one connection.
VARIABLES
  spc,          \* the await the function is at
  srows,        \* the rows read from the embeddings file
  sidx,         \* rows of srows whose INSERT has returned
  work,         \* the table as the open transaction sees it
  before,       \* the table when the function was called
  serr          \* the statement whose error the function threw

scriptVars == << spc, srows, sidx, work, before, serr >>

\* The page: the state of the component, the locals of the running
\* onSubmit, and the response it reads.
VARIABLES
  draft,        \* useState: the text of the input
  messages,     \* useState: the bubbles
  isLoading,    \* useState
  clock,        \* the last value Date.now() returned to onSubmit
  ppc,          \* the await onSubmit is at
  assistantId,  \* local of onSubmit
  fullText,     \* local of onSubmit
  decoder,      \* the bytes the TextDecoder holds back
  wire,         \* the response: status, body still to be read
  received,     \* the chunks reader.read() has returned
  requests,     \* the messages sent to /api/chat
  outcome,      \* how the last onSubmit ended
  lastSubmit    \* whether the last submit event was accepted

pageVars ==
  << draft, messages, isLoading, clock, ppc, assistantId, fullText, decoder,
     wire, received, requests, outcome, lastSubmit >>

\* What the steps of POST and of its relay leave alone.
auxVars == << pureVars, scriptVars, pageVars >>

vars ==
  << cfg, pool, checkedOut, sdk, table, pc, body, client, releases, resp, log,
     fault, seedIdx, sawEmpty, questionEmbedding, chunks, ctl, upstream, out,
     fn, args, result, spc, srows, sidx, work, before, serr,
     draft, messages, isLoading, clock, ppc, assistantId, fullText, decoder,
     wire, received, requests, outcome, lastSubmit >>

\* The variables of POST, and those but the table.
postVars ==
  << cfg, pool, checkedOut, sdk, pc, body, client, releases, resp, log,
     fault, seedIdx, sawEmpty, questionEmbedding, chunks, ctl, upstream, out >>

serverVars == << postVars, table >>

\* No function has been applied.
PureIdle == fn = "none" /\ args = <<>> /\ result = <<>>

\* The loading script has not been run.
ScriptIdle ==
  /\ spc = "idle"
  /\ srows = <<>>
  /\ sidx = 0
  /\ work = <<>>
  /\ before = <<>>
  /\ serr = "none"

procVars == << cfg, pool, sdk >>
seedVars == << table, seedIdx, sawEmpty >>
retrievalVars == << questionEmbedding, chunks >>
relayVars == << ctl, upstream, out >>

Thrown(r, op) == fault' = [fault EXCEPT ![r] = op]

\* EMBEDDING_API_KEY is GEMINI_API_KEY || OPENAI_API_KEY and CHAT_API_KEY is
\* OPENAI_API_KEY || GEMINI_API_KEY (route.ts:15-16): one is set exactly
\* when the other is.
Configs ==
  { c \in [embeddingKey : BOOLEAN, chatKey : BOOLEAN, databaseUrl : BOOLEAN, hnsw : BOOLEAN] :
      c.embeddingKey = c.chatKey }

\* A getPool that builds the pool whatever DATABASE_URL is.
PoolMissingNever(c) == FALSE

\* getPool() returns null: if (!DATABASE_URL) return null;   (route.ts:96)
PoolMissing(c) == ~c.databaseUrl

\* A count test that never finds the table seeded.
CountPositiveNever(t) == FALSE

\* count > 0, count being the number of rows of the table (route.ts:180-182)
CountPositive(t) == Len(t) > 0

(***************************************************************************)
(* The page.  A text is the sequence of its characters; the fixed texts of *)
(* the component are one piece each.                                       *)
(***************************************************************************)
Message(id, role, text, isStreaming) ==
  [id |-> id, role |-> role, text |-> text, isStreaming |-> isStreaming]

\* isStreaming is left out of the three messages and of user messages: it
\* reads as undefined, which the component treats as false.
initialMessages ==
  << Message(1, "assistant", <<"Hi! I am your resume assistant.">>, FALSE),
     Message(2, "user", <<"Give me a quick summary of your background.">>, FALSE),
     Message(3, "assistant", <<"I am a software engineer">>, FALSE) >>

GenericText == << "I could not generate a response right now." >>

\* String.prototype.trim for texts whose only white space is " ".
RECURSIVE TrimStart(_)
TrimStart(s) == IF s # <<>> /\ Head(s) = " " THEN TrimStart(Tail(s)) ELSE s

RECURSIVE TrimEnd(_)
TrimEnd(s) == IF s # <<>> /\ s[Len(s)] = " " THEN TrimEnd(SubSeq(s, 1, Len(s) - 1)) ELSE s

Trim(s) == TrimEnd(TrimStart(s))

\* A canSend that does not look at isLoading.
CanSendWhileLoading(d, loading) == Len(Trim(d)) > 0

\* draft.trim().length > 0 && !isLoading
CanSend(d, loading) == Len(Trim(d)) > 0 /\ ~loading

\* prev.map((msg) => msg.id === id ? { ...msg, text, isStreaming } : msg)
SetBubble(msgs, id, text, streaming) ==
  [i \in 1..Len(msgs) |->
     IF msgs[i].id = id THEN [msgs[i] EXCEPT !.text = text, !.isStreaming = streaming] ELSE msgs[i]]

\* prev.map((msg) => msg.id === id ? { ...msg, isStreaming: false } : msg)
EndBubble(msgs, id) ==
  [i \in 1..Len(msgs) |-> IF msgs[i].id = id THEN [msgs[i] EXCEPT !.isStreaming = FALSE] ELSE msgs[i]]

(***************************************************************************)
(* decoder.decode(value, { stream: true }): UTF-8 decoding that holds back *)
(* the bytes of an unfinished character until the next call.               *)
(***************************************************************************)
Replacement == "\\uFFFD"

\* The number of bytes of the character a lead byte starts; 0 if the byte
\* cannot start one.
SeqLen(b) ==
  CASE b < 128 -> 1
    [] b \in 194..223 -> 2
    [] b \in 224..239 -> 3
    [] b \in 240..244 -> 4
    [] OTHER -> 0

IsContinuation(b) == b \in 128..191

\* The character of a complete byte sequence: the inverse of Utf8.
CharOf(bs) ==
  CASE bs = <<97>> -> "a"
    [] bs = <<98>> -> "b"
    [] bs = <<104>> -> "h"
    [] bs = <<105>> -> "i"
    [] bs = <<195, 169>> -> "e'"
    [] OTHER -> Replacement

\* decoder.decode(value) without { stream: true }: the bytes of an unfinished
\* character at the end of the chunk decode to U+FFFD and nothing is held back.
RECURSIVE DecodeEachChunkWhole(_)
DecodeEachChunkWhole(bytes) ==
  IF bytes = <<>> THEN [text |-> <<>>, pending |-> <<>>]
  ELSE
    LET n == SeqLen(Head(bytes))
        wellFormed == n > 0 /\ Len(bytes) >= n /\ \A i \in 2..n : IsContinuation(bytes[i])
    IN  IF ~wellFormed
        THEN [text |-> <<Replacement>> \o DecodeEachChunkWhole(Tail(bytes)).text, pending |-> <<>>]
        ELSE [text |-> <<CharOf(SubSeq(bytes, 1, n))>>
                         \o DecodeEachChunkWhole(SubSeq(bytes, n + 1, Len(bytes))).text,
              pending |-> <<>>]

\* text: the characters decoded; pending: the bytes held back.
RECURSIVE DecodeStream(_)
DecodeStream(bytes) ==
  IF bytes = <<>> THEN [text |-> <<>>, pending |-> <<>>]
  ELSE
    LET n == SeqLen(Head(bytes))
        have == IF Len(bytes) < n THEN Len(bytes) ELSE n
        wellFormed == \A i \in 2..have : IsContinuation(bytes[i])
    IN  IF n = 0 \/ ~wellFormed
        THEN LET rest == DecodeStream(Tail(bytes))
             IN  [text |-> <<Replacement>> \o rest.text, pending |-> rest.pending]
        ELSE IF Len(bytes) < n
        THEN [text |-> <<>>, pending |-> bytes]
        ELSE LET rest == DecodeStream(SubSeq(bytes, n + 1, Len(bytes)))
             IN  [text |-> <<CharOf(SubSeq(bytes, 1, n))>> \o rest.text, pending |-> rest.pending]

(***************************************************************************)
(* The responses fetch may resolve with.                                   *)
(***************************************************************************)
\* The body of a non-OK response as response.text() and JSON.parse read it.
ErrorBody(parses, json, error, details, text) ==
  [parses |-> parses, json |-> json, error |-> error, details |-> details, text |-> text]

ErrorBodies ==
  { ErrorBody(TRUE, "object", e, d, <<>>) :
      e \in {JsUndefined, JsNumber(5), JsString(<<>>), JsString(<<"E">>)},
      d \in {JsUndefined, JsString(<<>>), JsString(<<"D">>)} }
    \cup { ErrorBody(TRUE, "null", JsUndefined, JsUndefined, <<>>),
           ErrorBody(FALSE, "none", JsUndefined, JsUndefined, <<"o", "o", "p", "s">>),
           ErrorBody(FALSE, "none", JsUndefined, JsUndefined, <<>>) }

\* A body that does not parse read as the empty object.
ParsedOrEmpty(b) ==
  IF b.parses THEN b ELSE ErrorBody(TRUE, "object", JsUndefined, JsUndefined, b.text)

\* try { data = JSON.parse(raw) } catch { data = { error: raw } }
ParsedOrRaw(b) ==
  IF b.parses THEN b ELSE ErrorBody(TRUE, "object", JsString(b.text), JsUndefined, b.text)

\* typeof data.error === "string"
\*   ? (data.details ? `${data.error}\n${data.details}` : data.error)
\*   : "I could not generate a response right now."
ErrorText(b) ==
  LET data == ParsedOrRaw(b)
  IN  IF IsString(data.error)
      THEN IF Truthy(data.details) THEN data.error.s \o <<"\n">> \o data.details.s ELSE data.error.s
      ELSE GenericText

\* The answers the server may stream.
ServerTexts == { <<>>, <<"a">>, <<"e'", "b">>, <<"a", "e'">> }

NoBody == ErrorBody(FALSE, "none", JsUndefined, JsUndefined, <<>>)

NoWire == [ok |-> FALSE, hasBody |-> FALSE, raw |-> NoBody, bytes |-> <<>>]

NotOkResponse(b) == [ok |-> FALSE, hasBody |-> TRUE, raw |-> b, bytes |-> <<>>]

BodylessResponse == [ok |-> TRUE, hasBody |-> FALSE, raw |-> NoBody, bytes |-> <<>>]

StreamedResponse(text) == [ok |-> TRUE, hasBody |-> TRUE, raw |-> NoBody, bytes |-> Encode(text)]

\* The page as first rendered.
PageIdle ==
  /\ draft = <<>>
  /\ messages = initialMessages
  /\ isLoading = FALSE
  /\ clock = 10
  /\ ppc = "idle"
  /\ assistantId = 0
  /\ fullText = <<>>
  /\ decoder = <<>>
  /\ wire = NoWire
  /\ received = <<>>
  /\ requests = <<>>
  /\ outcome = "none"
  /\ lastSubmit = "none"

\* No request has arrived: the state of the module after import, the table
\* not yet seeded.
ServerIdle ==
  /\ pool = FALSE
  /\ checkedOut = 0
  /\ sdk = FALSE
  /\ pc = [r \in Requests |-> "start"]
  /\ body = [r \in Requests |-> Body(FALSE, "none", JsUndefined)]
  /\ client = [r \in Requests |-> FALSE]
  /\ releases = [r \in Requests |-> 0]
  /\ resp = [r \in Requests |-> NoResponse]
  /\ log = [r \in Requests |-> <<>>]
  /\ fault = [r \in Requests |-> "none"]
  /\ seedIdx = [r \in Requests |-> 0]
  /\ sawEmpty = [r \in Requests |-> FALSE]
  /\ questionEmbedding = [r \in Requests |-> <<>>]
  /\ chunks = [r \in Requests |-> <<>>]
  /\ ctl = [r \in Requests |-> NoStream]
  /\ upstream = [r \in Requests |-> <<>>]
  /\ out = [r \in Requests |-> <<>>]

Init ==
  /\ cfg \in Configs
  /\ table = <<>>
  /\ ServerIdle
  /\ PureIdle
  /\ ScriptIdle
  /\ PageIdle

Logged(r, op) == log' = [log EXCEPT ![r] = Append(@, op)]

\* A handler without the finally block.
ReleaseMissing(r) == UNCHANGED << checkedOut, releases >>

\* finally { if (client) client.release(); }   (route.ts:344-346)
Release(r) ==
  IF client[r]
  THEN /\ checkedOut' = checkedOut - 1
       /\ releases' = [releases EXCEPT ![r] = @ + 1]
  ELSE UNCHANGED << checkedOut, releases >>

\* A return that leaves the client checked out.
ReturnHoldingClient(r, response) ==
  /\ resp' = [resp EXCEPT ![r] = response]
  /\ pc' = [pc EXCEPT ![r] = "returned"]
  /\ UNCHANGED << checkedOut, releases >>

\* POST returns `response`; the finally block runs on the way out.
Return(r, response) ==
  /\ resp' = [resp EXCEPT ![r] = response]
  /\ pc' = [pc EXCEPT ![r] = "returned"]
  /\ Release(r)

\* The outer catch (route.ts:339-343): the thrown Error's message, status 500.
Catch(r, message) == Return(r, JsonError(500, message))

(***************************************************************************)
(* POST, from entry to the await of dbPool.connect() (route.ts:199-213).   *)
(***************************************************************************)
PostEnter(r) ==
  /\ pc[r] = "start"
  /\ \E b \in Bodies : body' = [body EXCEPT ![r] = b]
  /\ IF ~cfg.embeddingKey
     THEN /\ Return(r, JsonError(500, "Missing Gemini API key"))
          /\ UNCHANGED << pool, log >>
     ELSE IF ~cfg.chatKey
     THEN /\ Return(r, JsonError(500, "Missing OpenAI API key"))
          /\ UNCHANGED << pool, log >>
     ELSE IF PoolMissing(cfg)
     THEN /\ Return(r, JsonError(500, "Missing DATABASE_URL"))
          /\ UNCHANGED << pool, log >>
     ELSE /\ pool' = TRUE
          /\ Logged(r, "connect")
          /\ pc' = [pc EXCEPT ![r] = "connect"]
          /\ UNCHANGED << resp, checkedOut, releases >>
  /\ UNCHANGED << cfg, sdk, client, fault >>
  /\ UNCHANGED retrievalVars
  /\ UNCHANGED seedVars
  /\ UNCHANGED relayVars
  /\ UNCHANGED auxVars

\* dbPool.connect() resolves: client is set, request.json() is awaited.
ConnectOk(r) ==
  /\ pc[r] = "connect"
  /\ client' = [client EXCEPT ![r] = TRUE]
  /\ checkedOut' = checkedOut + 1
  /\ Logged(r, "body")
  /\ pc' = [pc EXCEPT ![r] = "json"]
  /\ UNCHANGED << body, releases, resp, fault >>
  /\ UNCHANGED retrievalVars
  /\ UNCHANGED procVars
  /\ UNCHANGED seedVars
  /\ UNCHANGED relayVars
  /\ UNCHANGED auxVars

\* connect() without its own try/catch: the rejection reaches the outer catch.
ConnectFailGenericCatch(r) ==
  /\ pc[r] = "connect"
  /\ Catch(r, "connect ECONNREFUSED")
  /\ Thrown(r, "connect")
  /\ UNCHANGED << body, client, log >>
  /\ UNCHANGED procVars
  /\ UNCHANGED seedVars
  /\ UNCHANGED retrievalVars
  /\ UNCHANGED relayVars
  /\ UNCHANGED auxVars

\* dbPool.connect() rejects (route.ts:214-223).
ConnectFail(r) ==
  /\ pc[r] = "connect"
  /\ Return(r, JsonErrorDetails(500, ConnectFailedText, "connect ECONNREFUSED"))
  /\ Thrown(r, "connect")
  /\ UNCHANGED << body, client, log >>
  /\ UNCHANGED retrievalVars
  /\ UNCHANGED procVars
  /\ UNCHANGED seedVars
  /\ UNCHANGED relayVars
  /\ UNCHANGED auxVars

\* request.json() settles, then the validation of route.ts:225-231; a valid
\* message goes on to the first statement of ensureRagTableAndSeed.
ReadBody(r) ==
  /\ pc[r] = "json"
  /\ IF ~body[r].parses
     THEN /\ Catch(r, "Unexpected token in JSON")
          /\ Thrown(r, "json")
          /\ UNCHANGED log
     ELSE IF body[r].json = "null"
     THEN /\ Catch(r, "Cannot destructure property 'message' of null")
          /\ Thrown(r, "destructure")
          /\ UNCHANGED log
     ELSE IF ~Truthy(body[r].message) \/ ~IsString(body[r].message)
     THEN /\ Return(r, JsonError(400, "Invalid request body: message is required"))
          /\ UNCHANGED << log, fault >>
     ELSE /\ Logged(r, "schema")
          /\ pc' = [pc EXCEPT ![r] = "schema"]
          /\ UNCHANGED << resp, checkedOut, releases, fault >>
  /\ UNCHANGED << body, client >>
  /\ UNCHANGED retrievalVars
  /\ UNCHANGED procVars
  /\ UNCHANGED seedVars
  /\ UNCHANGED relayVars
  /\ UNCHANGED auxVars

(***************************************************************************)
(* ensureRagTableAndSeed (route.ts:158-196), one step per awaited query.   *)
(***************************************************************************)
\* The schema statement resolves; the index statement follows only when
\* EMBEDDING_DIM <= 2000, else the count query.
SchemaOk(r) ==
  /\ pc[r] = "schema"
  /\ IF cfg.hnsw
     THEN /\ Logged(r, "index")
          /\ pc' = [pc EXCEPT ![r] = "index"]
     ELSE /\ Logged(r, "count")
          /\ pc' = [pc EXCEPT ![r] = "count"]
  /\ UNCHANGED << checkedOut, body, client, releases, resp, fault >>
  /\ UNCHANGED procVars
  /\ UNCHANGED seedVars
  /\ UNCHANGED retrievalVars
  /\ UNCHANGED relayVars
  /\ UNCHANGED auxVars

IndexOk(r) ==
  /\ pc[r] = "index"
  /\ Logged(r, "count")
  /\ pc' = [pc EXCEPT ![r] = "count"]
  /\ UNCHANGED << checkedOut, body, client, releases, resp, fault >>
  /\ UNCHANGED procVars
  /\ UNCHANGED seedVars
  /\ UNCHANGED retrievalVars
  /\ UNCHANGED relayVars
  /\ UNCHANGED auxVars

\* SELECT COUNT(*) resolves.  count > 0: ensureRagTableAndSeed returns and
\* retrieveTopChunks starts the embedding fetch.  Otherwise the seed file is read.
CountOk(r) ==
  /\ pc[r] = "count"
  /\ IF CountPositive(table)
     THEN /\ Logged(r, "embed")
          /\ pc' = [pc EXCEPT ![r] = "embed"]
          /\ UNCHANGED sawEmpty
     ELSE /\ Logged(r, "readFile")
          /\ pc' = [pc EXCEPT ![r] = "readFile"]
          /\ sawEmpty' = [sawEmpty EXCEPT ![r] = TRUE]
  /\ UNCHANGED << checkedOut, body, client, releases, resp, fault, table, seedIdx >>
  /\ UNCHANGED procVars
  /\ UNCHANGED retrievalVars
  /\ UNCHANGED relayVars
  /\ UNCHANGED auxVars

\* readFile resolves and the loop issues the INSERT of the first row.
ReadFileOk(r) ==
  /\ pc[r] = "readFile"
  /\ seedIdx' = [seedIdx EXCEPT ![r] = 1]
  /\ Logged(r, "insert")
  /\ pc' = [pc EXCEPT ![r] = "insert"]
  /\ UNCHANGED << checkedOut, body, client, releases, resp, fault, table, sawEmpty >>
  /\ UNCHANGED procVars
  /\ UNCHANGED retrievalVars
  /\ UNCHANGED relayVars
  /\ UNCHANGED auxVars

\* readFile rejects (the seed file is missing).
ReadFileFail(r) ==
  /\ pc[r] = "readFile"
  /\ Catch(r, "ENOENT: no such file or directory")
  /\ Thrown(r, "readFile")
  /\ UNCHANGED << body, client, log >>
  /\ UNCHANGED procVars
  /\ UNCHANGED seedVars
  /\ UNCHANGED retrievalVars
  /\ UNCHANGED relayVars
  /\ UNCHANGED auxVars

\* One INSERT of the seed loop resolves; the next one is issued, or the loop
\* is over and retrieveTopChunks starts the embedding fetch.
InsertOk(r) ==
  /\ pc[r] = "insert"
  /\ table' = UpsertRow(table, SeedRows[seedIdx[r]])
  /\ IF seedIdx[r] < Len(SeedRows)
     THEN /\ seedIdx' = [seedIdx EXCEPT ![r] = @ + 1]
          /\ Logged(r, "insert")
          /\ UNCHANGED pc
     ELSE /\ Logged(r, "embed")
          /\ pc' = [pc EXCEPT ![r] = "embed"]
          /\ UNCHANGED seedIdx
  /\ UNCHANGED << checkedOut, body, client, releases, resp, fault, sawEmpty >>
  /\ UNCHANGED procVars
  /\ UNCHANGED retrievalVars
  /\ UNCHANGED relayVars
  /\ UNCHANGED auxVars

\* Any client.query of the request rejects (the connection drops, the
\* statement fails): the outer catch answers 500.
QueryFail(r) ==
  /\ pc[r] \in {"schema", "index", "count", "insert", "similarity"}
  /\ Catch(r, "database error")
  /\ Thrown(r, "query")
  /\ UNCHANGED << body, client, log >>
  /\ UNCHANGED procVars
  /\ UNCHANGED seedVars
  /\ UNCHANGED retrievalVars
  /\ UNCHANGED relayVars
  /\ UNCHANGED auxVars

(***************************************************************************)
(* retrieveTopChunks / embedText (route.ts:118-155).                       *)
(***************************************************************************)
\* The embedding fetch answers ok and the similarity query is issued.
EmbedOk(r) ==
  /\ pc[r] = "embed"
  /\ \E e \in QuestionEmbeddings :
       questionEmbedding' = [questionEmbedding EXCEPT ![r] = e]
  /\ Logged(r, "similarity")
  /\ pc' = [pc EXCEPT ![r] = "similarity"]
  /\ UNCHANGED << checkedOut, body, client, releases, resp, fault, chunks >>
  /\ UNCHANGED procVars
  /\ UNCHANGED seedVars
  /\ UNCHANGED relayVars
  /\ UNCHANGED auxVars

\* An embedText whose failure is swallowed: the similarity query is issued
\* with an empty vector.
EmbedFailThenQuery(r) ==
  /\ pc[r] = "embed"
  /\ questionEmbedding' = [questionEmbedding EXCEPT ![r] = <<>>]
  /\ Logged(r, "similarity")
  /\ pc' = [pc EXCEPT ![r] = "similarity"]
  /\ Thrown(r, "embed")
  /\ UNCHANGED << checkedOut, body, client, releases, resp, chunks >>
  /\ UNCHANGED procVars
  /\ UNCHANGED seedVars
  /\ UNCHANGED relayVars
  /\ UNCHANGED auxVars

\* fetch rejects, or the answer is not ok and embedText throws its text.
EmbedFail(r) ==
  /\ pc[r] = "embed"
  /\ \E message \in {"fetch failed", "embedding service: 429 quota"} : Catch(r, message)
  /\ Thrown(r, "embed")
  /\ UNCHANGED << body, client, log >>
  /\ UNCHANGED procVars
  /\ UNCHANGED seedVars
  /\ UNCHANGED retrievalVars
  /\ UNCHANGED relayVars
  /\ UNCHANGED auxVars

(***************************************************************************)
(* The ReadableStream controller, as far as the relay uses it.             *)
(* enqueue and close throw a TypeError unless the stream is readable;      *)
(* error does nothing unless the stream is readable.                       *)
(***************************************************************************)
\* A catch block that swallows the error instead of passing it to the stream.
ControllerErrorSwallowed(c) == [c EXCEPT !.phase = "finished"]

\* controller.error(e), which ends start (route.ts:326-328).
ControllerError(c) ==
  [c EXCEPT !.calls = Append(@, "error"),
            !.state = IF @ = "readable" THEN "errored" ELSE @,
            !.phase = "finished"]

\* controller.close() at route.ts:325; when it throws, the catch calls error.
ControllerClose(c) ==
  IF c.state = "readable"
  THEN [c EXCEPT !.calls = Append(@, "close"), !.state = "closed", !.phase = "finished"]
  ELSE ControllerError([c EXCEPT !.calls = Append(@, "close")])

\* The similarity query resolves.  A vector of another dimension makes the
\* statement fail.  Otherwise POST builds the context and the agent, creates
\* the stream, whose start runs up to `await run(...)`, and returns the
\* Response (route.ts:234-338); the finally block releases the client.
SimilarityOk(r) ==
  /\ pc[r] = "similarity"
  /\ IF Len(questionEmbedding[r]) # EMBEDDING_DIM
     THEN /\ Catch(r, "different vector dimensions")
          /\ Thrown(r, "query")
          /\ UNCHANGED << sdk, log, chunks, ctl >>
     ELSE /\ chunks' = [chunks EXCEPT ![r] = SimilarityRows(table, questionEmbedding[r], TopK)]
          /\ sdk' = TRUE
          /\ Logged(r, "run")
          /\ ctl' = [ctl EXCEPT ![r] = [NoStream EXCEPT !.phase = "run", !.state = "readable"]]
          /\ Return(r, StreamResponse)
          /\ UNCHANGED fault
  /\ UNCHANGED << cfg, pool, body, client, questionEmbedding, upstream, out >>
  /\ UNCHANGED seedVars
  /\ UNCHANGED auxVars

\* What the relay and the client's cancel leave alone.
handlerVars ==
  << cfg, pool, checkedOut, sdk, table, pc, body, client, releases, resp, log,
     seedIdx, sawEmpty, questionEmbedding, chunks >>

(***************************************************************************)
(* The relay: start(controller) of the response stream (route.ts:311-329). *)
(***************************************************************************)
\* run(agent, message, { stream: true }) resolves; the for await begins.
RunOk(r) ==
  /\ ctl[r].phase = "run"
  /\ ctl' = [ctl EXCEPT ![r].phase = "iterate"]
  /\ UNCHANGED << upstream, out, fault >>
  /\ UNCHANGED handlerVars
  /\ UNCHANGED auxVars

\* run(...) rejects: the generation call failed.
RunFail(r) ==
  /\ ctl[r].phase = "run"
  /\ ctl' = [ctl EXCEPT ![r] = ControllerError(@)]
  /\ Thrown(r, "run")
  /\ UNCHANGED << upstream, out >>
  /\ UNCHANGED handlerVars
  /\ UNCHANGED auxVars

\* The agent run delivers one more event; a text delta is enqueued.
RelayEvent(r, events) ==
  /\ ctl[r].phase = "iterate"
  /\ Len(upstream[r]) < MaxEvents
  /\ \E event \in events :
       /\ upstream' = [upstream EXCEPT ![r] = Append(@, event)]
       /\ IF IsTextDelta(event)
          THEN IF ctl[r].state = "readable"
               THEN /\ out' = [out EXCEPT ![r] = Append(@, Encode(event.delta.s))]
                    /\ UNCHANGED << ctl, fault >>
               ELSE /\ ctl' = [ctl EXCEPT ![r] = ControllerError(@)]
                    /\ Thrown(r, "enqueue")
                    /\ UNCHANGED out
          ELSE UNCHANGED << ctl, out, fault >>
  /\ UNCHANGED handlerVars
  /\ UNCHANGED auxVars

\* The event sequence ends; agentRun.completed is awaited.
RelayEnd(r) ==
  /\ ctl[r].phase = "iterate"
  /\ ctl' = [ctl EXCEPT ![r].phase = "completed"]
  /\ UNCHANGED << upstream, out, fault >>
  /\ UNCHANGED handlerVars
  /\ UNCHANGED auxVars

\* The iteration throws (the upstream connection breaks).
RelayFail(r) ==
  /\ ctl[r].phase = "iterate"
  /\ ctl' = [ctl EXCEPT ![r] = ControllerError(@)]
  /\ Thrown(r, "iterate")
  /\ UNCHANGED << upstream, out >>
  /\ UNCHANGED handlerVars
  /\ UNCHANGED auxVars

\* agentRun.completed resolves and the stream is closed.
CompletedOk(r) ==
  /\ ctl[r].phase = "completed"
  /\ ctl' = [ctl EXCEPT ![r] = ControllerClose(@)]
  /\ IF ctl[r].state = "readable" THEN UNCHANGED fault ELSE Thrown(r, "close")
  /\ UNCHANGED << upstream, out >>
  /\ UNCHANGED handlerVars
  /\ UNCHANGED auxVars

\* agentRun.completed rejects.
CompletedFail(r) ==
  /\ ctl[r].phase = "completed"
  /\ ctl' = [ctl EXCEPT ![r] = ControllerError(@)]
  /\ Thrown(r, "completed")
  /\ UNCHANGED << upstream, out >>
  /\ UNCHANGED handlerVars
  /\ UNCHANGED auxVars

\* The client cancels the response stream.  The underlying source has no
\* cancel method, so only the stream's state changes: it becomes closed.
ClientCancel(r) ==
  /\ ctl[r].state = "readable"
  /\ ctl' = [ctl EXCEPT ![r].state = "closed", ![r].cancelled = TRUE]
  /\ UNCHANGED << upstream, out, fault >>
  /\ UNCHANGED handlerVars
  /\ UNCHANGED auxVars

Handler(r) ==
  \/ PostEnter(r)
  \/ ConnectOk(r)
  \/ ConnectFail(r)
  \/ ReadBody(r)
  \/ SchemaOk(r)
  \/ IndexOk(r)
  \/ CountOk(r)
  \/ ReadFileOk(r)
  \/ ReadFileFail(r)
  \/ InsertOk(r)
  \/ QueryFail(r)
  \/ EmbedOk(r)
  \/ EmbedFail(r)
  \/ SimilarityOk(r)

Relay(r, events) ==
  \/ RunOk(r)
  \/ RunFail(r)
  \/ RelayEvent(r, events)
  \/ RelayEnd(r)
  \/ RelayFail(r)
  \/ CompletedOk(r)
  \/ CompletedFail(r)

\* Concurrent requests; their agent runs deliver text deltas and tool events.
Next == \E r \in Requests : Handler(r) \/ Relay(r, CoreEvents) \/ ClientCancel(r)

Spec == Init /\ [][Next]_vars

\* One request, whose agent run delivers every kind of event.
OneNext == Handler("r1") \/ Relay("r1", Events) \/ ClientCancel("r1")

OneSpec == Init /\ [][OneNext]_vars

\* The event loop runs every continuation whose promise has settled, and the
\* agent run settles run(...), each step of the iteration and `completed`.
FairOneSpec == OneSpec /\ WF_vars(Relay("r1", Events))

(***************************************************************************)
(* The functions of the store and of the prompt on their own, each applied *)
(* once to every table, batch, question vector and chunk list within the   *)
(* bounds.                                                                 *)
(***************************************************************************)
MaxRows == 2

\* Two contents for each of three ids.
RowPool ==
  { Row("p1", "experience", "t1", <<1, 0>>), Row("p1", "summary", "t1b", <<1, 1>>),
    Row("p2", "skills", "t2", <<0, 1>>),     Row("p2", "skills", "t2b", <<2, 2>>),
    Row("p3", "projects", "t3", <<1, 2>>),   Row("p3", "contact", "t3b", <<0, 2>>) }

SeqsUpTo(S, n) == UNION { [1..m -> S] : m \in 0..n }

DistinctIds(rows) == \A i, j \in 1..Len(rows) : i # j => rows[i].id # rows[j].id

\* The tables the primary key admits.
Tables == { t \in SeqsUpTo(RowPool, MaxRows) : DistinctIds(t) }

\* The arrays a seed file may hold: an id may occur twice.
Batches == SeqsUpTo(RowPool, MaxRows)

\* Question vectors of the dimension of the column.
PureQueries == { <<2, 1>>, <<1, 2>>, <<1, 0>>, <<0 - 1, 1>> }

\* Vectors of several lengths for the in-memory ranking.
PureVectors == { <<1, 0>>, <<0, 1>>, <<2, 1>>, <<1>>, <<1, 0, 3>>, <<0, 0>> }

PureInit ==
  /\ cfg = [embeddingKey |-> TRUE, chatKey |-> TRUE, databaseUrl |-> TRUE, hnsw |-> TRUE]
  /\ table = <<>>
  /\ ServerIdle
  /\ PureIdle
  /\ ScriptIdle
  /\ PageIdle

ApplyUpsert ==
  \E t \in Tables, rows \in Batches :
    /\ fn = "none"
    /\ fn' = "upsert"
    /\ args' = [table |-> t, rows |-> rows]
    /\ result' = UpsertAll(t, rows)
    /\ UNCHANGED << serverVars, scriptVars, pageVars >>

ApplySimilarity ==
  \E t \in Tables, q \in PureQueries, k \in {1, 2, TopK} :
    /\ fn = "none"
    /\ fn' = "similarity"
    /\ args' = [table |-> t, q |-> q, k |-> k]
    /\ result' = SimilarityRows(t, q, k)
    /\ UNCHANGED << serverVars, scriptVars, pageVars >>

ApplyContext ==
  \E t \in Tables :
    /\ fn = "none"
    /\ fn' = "context"
    /\ args' = [chunks |-> Project(t)]
    /\ result' = Context(Project(t))
    /\ UNCHANGED << serverVars, scriptVars, pageVars >>

ApplyCosine ==
  \E a \in PureVectors, b \in PureVectors :
    /\ fn = "none"
    /\ fn' = "cosineSimilarity"
    /\ args' = [a |-> a, b |-> b]
    /\ result' = cosineSimilarity(a, b)
    /\ UNCHANGED << serverVars, scriptVars, pageVars >>

PureNext ==
  \/ ApplyUpsert
  \/ ApplySimilarity
  \/ ApplyContext
  \/ ApplyCosine

PureSpec == PureInit /\ [][PureNext]_vars

(***************************************************************************)
(* upsertEmbeddings of the loading script: the rows of the file upserted   *)
(* between BEGIN and COMMIT on one connection, ROLLBACK when a statement   *)
(* inside the try block fails.  Statements of the open transaction change  *)
(* `work`; a COMMIT that takes effect makes it the table.                  *)
(***************************************************************************)
UpsertInit ==
  /\ cfg = [embeddingKey |-> TRUE, chatKey |-> TRUE, databaseUrl |-> TRUE, hnsw |-> TRUE]
  /\ table \in Tables
  /\ ServerIdle
  /\ PureIdle
  /\ ScriptIdle
  /\ PageIdle

scriptFrame == << postVars, pureVars, pageVars >>

\* The upsert of one row run outside a transaction: it is visible at once.
AutoCommitUpsert(row) ==
  /\ work' = UpsertRow(work, row)
  /\ table' = UpsertRow(table, row)

\* The upsert of one row inside the transaction BEGIN opened.
TxUpsert(row) ==
  /\ work' = UpsertRow(work, row)
  /\ table' = table

\* const rows = JSON.parse(await readFile(EMBEDDINGS_PATH, "utf8"))
ScriptReadFileOk ==
  /\ spc = "idle"
  /\ \E rows \in Batches : srows' = rows
  /\ before' = table
  /\ spc' = "begin"
  /\ UNCHANGED << sidx, work, serr, table >>
  /\ UNCHANGED scriptFrame

ScriptReadFileFail ==
  /\ spc = "idle"
  /\ before' = table
  /\ spc' = "threw"
  /\ serr' = "readFile"
  /\ UNCHANGED << srows, sidx, work, table >>
  /\ UNCHANGED scriptFrame

\* await client.query("BEGIN"), before the try block
ScriptBeginOk ==
  /\ spc = "begin"
  /\ work' = table
  /\ spc' = "insert"
  /\ UNCHANGED << srows, sidx, before, serr, table >>
  /\ UNCHANGED scriptFrame

ScriptBeginFail ==
  /\ spc = "begin"
  /\ spc' = "threw"
  /\ serr' = "begin"
  /\ UNCHANGED << srows, sidx, work, before, table >>
  /\ UNCHANGED scriptFrame

\* one turn of the loop
ScriptInsertOk ==
  /\ spc = "insert"
  /\ sidx < Len(srows)
  /\ TxUpsert(srows[sidx + 1])
  /\ sidx' = sidx + 1
  /\ UNCHANGED << spc, srows, before, serr >>
  /\ UNCHANGED scriptFrame

ScriptInsertFail ==
  /\ spc = "insert"
  /\ sidx < Len(srows)
  /\ spc' = "rollback"
  /\ serr' = "insert"
  /\ UNCHANGED << srows, sidx, work, before, table >>
  /\ UNCHANGED scriptFrame

\* await client.query("COMMIT")
ScriptCommitOk ==
  /\ spc = "insert"
  /\ sidx = Len(srows)
  /\ table' = work
  /\ spc' = "done"
  /\ UNCHANGED << srows, sidx, work, before, serr >>
  /\ UNCHANGED scriptFrame

\* COMMIT rejects and the transaction is not committed.
ScriptCommitFail ==
  /\ spc = "insert"
  /\ sidx = Len(srows)
  /\ spc' = "rollback"
  /\ serr' = "commit"
  /\ UNCHANGED << srows, sidx, work, before, table >>
  /\ UNCHANGED scriptFrame

\* COMMIT takes effect on the server and its answer is lost: the query
\* rejects all the same.
ScriptCommitLost ==
  /\ spc = "insert"
  /\ sidx = Len(srows)
  /\ table' = work
  /\ spc' = "rollback"
  /\ serr' = "commitLost"
  /\ UNCHANGED << srows, sidx, work, before >>
  /\ UNCHANGED scriptFrame

\* catch (e) { await client.query("ROLLBACK"); throw e; }
ScriptRollbackOk ==
  /\ spc = "rollback"
  /\ work' = <<>>
  /\ spc' = "threw"
  /\ UNCHANGED << srows, sidx, before, serr, table >>
  /\ UNCHANGED scriptFrame

\* ROLLBACK rejects (the connection is gone, the server drops the open
\* transaction): its error is thrown in place of e.
ScriptRollbackFail ==
  /\ spc = "rollback"
  /\ work' = <<>>
  /\ spc' = "rollbackThrew"
  /\ UNCHANGED << srows, sidx, before, serr, table >>
  /\ UNCHANGED scriptFrame

UpsertNext ==
  \/ ScriptReadFileOk
  \/ ScriptReadFileFail
  \/ ScriptBeginOk
  \/ ScriptBeginFail
  \/ ScriptInsertOk
  \/ ScriptInsertFail
  \/ ScriptCommitOk
  \/ ScriptCommitFail
  \/ ScriptCommitLost
  \/ ScriptRollbackOk
  \/ ScriptRollbackFail

UpsertSpec == UpsertInit /\ [][UpsertNext]_vars

(***************************************************************************)
(* onSubmit of the page, one action per await, with the typing of the user *)
(* and the responses and chunks the network delivers.                      *)
(***************************************************************************)
MaxSubmits == 2
MaxChunk == 2

Drafts == { <<>>, <<" ">>, <<"h", "i">>, <<" ", "h", "i", " ">> }

PageInit ==
  /\ cfg = [embeddingKey |-> TRUE, chatKey |-> TRUE, databaseUrl |-> TRUE, hnsw |-> TRUE]
  /\ table = <<>>
  /\ ServerIdle
  /\ PureIdle
  /\ ScriptIdle
  /\ PageIdle

pageFrame == << serverVars, pureVars, scriptVars >>

\* finally { setIsLoading(false) } and the return of onSubmit
Settle(how) ==
  /\ isLoading' = FALSE
  /\ ppc' = "idle"
  /\ outcome' = how

\* The catch block of onSubmit.
CatchSubmit ==
  /\ messages' = SetBubble(messages, assistantId, GenericText, FALSE)
  /\ Settle("threw")

\* onChange={(e) => setDraft(e.target.value)}
SetDraft ==
  /\ \E d \in Drafts : d # draft /\ draft' = d
  /\ UNCHANGED << messages, isLoading, clock, ppc, assistantId, fullText, decoder,
                  wire, received, requests, outcome, lastSubmit >>
  /\ UNCHANGED pageFrame

\* if (!canSend) return;
SubmitIgnored ==
  /\ ~CanSend(draft, isLoading)
  /\ lastSubmit' = "ignored"
  /\ UNCHANGED << draft, messages, isLoading, clock, ppc, assistantId, fullText, decoder,
                  wire, received, requests, outcome >>
  /\ UNCHANGED pageFrame

\* onSubmit up to the await of fetch.  Date.now() is later than at the
\* submission before, by one millisecond or by more.
Submit ==
  /\ CanSend(draft, isLoading)
  /\ Len(requests) < MaxSubmits
  /\ \E ms \in 1..2 : clock' = clock + ms
  /\ assistantId' = clock' + 1
  /\ messages' = messages \o << Message(clock', "user", Trim(draft), FALSE),
                                Message(clock' + 1, "assistant", <<>>, TRUE) >>
  /\ draft' = <<>>
  /\ isLoading' = TRUE
  /\ requests' = Append(requests, Trim(draft))
  /\ ppc' = "fetch"
  /\ lastSubmit' = "accepted"
  /\ outcome' = "pending"
  /\ fullText' = <<>>
  /\ decoder' = <<>>
  /\ received' = <<>>
  /\ wire' = NoWire
  /\ UNCHANGED pageFrame

\* fetch resolves with a non-OK response: await response.text() is next
FetchNotOk ==
  /\ ppc = "fetch"
  /\ \E b \in ErrorBodies : wire' = NotOkResponse(b)
  /\ ppc' = "text"
  /\ UNCHANGED << draft, messages, isLoading, clock, assistantId, fullText, decoder,
                  received, requests, outcome, lastSubmit >>
  /\ UNCHANGED pageFrame

\* fetch resolves with an OK response without a body: no reader
FetchNoBody ==
  /\ ppc = "fetch"
  /\ wire' = BodylessResponse
  /\ messages' = SetBubble(messages, assistantId, GenericText, FALSE)
  /\ Settle("noBody")
  /\ UNCHANGED << draft, clock, assistantId, fullText, decoder, received, requests, lastSubmit >>
  /\ UNCHANGED pageFrame

\* fetch resolves with an OK response: the first reader.read() is next
FetchStream ==
  /\ ppc = "fetch"
  /\ \E text \in ServerTexts : wire' = StreamedResponse(text)
  /\ ppc' = "read"
  /\ UNCHANGED << draft, messages, isLoading, clock, assistantId, fullText, decoder,
                  received, requests, outcome, lastSubmit >>
  /\ UNCHANGED pageFrame

\* fetch rejects
FetchFail ==
  /\ ppc = "fetch"
  /\ CatchSubmit
  /\ UNCHANGED << draft, clock, assistantId, fullText, decoder, wire, received, requests, lastSubmit >>
  /\ UNCHANGED pageFrame

\* response.text() resolves.  A body that is the JSON null makes data.error
\* throw a TypeError, which the catch block handles.
TextOk ==
  /\ ppc = "text"
  /\ IF wire.raw.parses /\ wire.raw.json = "null"
     THEN CatchSubmit
     ELSE /\ messages' = SetBubble(messages, assistantId, ErrorText(wire.raw), FALSE)
          /\ Settle("notOk")
  /\ UNCHANGED << draft, clock, assistantId, fullText, decoder, wire, received, requests, lastSubmit >>
  /\ UNCHANGED pageFrame

\* response.text() rejects
TextFail ==
  /\ ppc = "text"
  /\ CatchSubmit
  /\ UNCHANGED << draft, clock, assistantId, fullText, decoder, wire, received, requests, lastSubmit >>
  /\ UNCHANGED pageFrame

\* reader.read() resolves with a chunk: the next bytes of the body, cut
\* where the network cut them
ReadChunk ==
  /\ ppc = "read"
  /\ \E n \in 1..MaxChunk :
       /\ n <= Len(wire.bytes)
       /\ LET value == SubSeq(wire.bytes, 1, n)
              decoded == DecodeStream(decoder \o value)
          IN  /\ wire' = [wire EXCEPT !.bytes = SubSeq(wire.bytes, n + 1, Len(wire.bytes))]
              /\ received' = Append(received, value)
              /\ decoder' = decoded.pending
              /\ fullText' = fullText \o decoded.text
              /\ messages' = SetBubble(messages, assistantId, fullText \o decoded.text, TRUE)
  /\ UNCHANGED << draft, isLoading, clock, ppc, assistantId, requests, outcome, lastSubmit >>
  /\ UNCHANGED pageFrame

\* reader.read() resolves with done: the body was read to its end
ReadDone ==
  /\ ppc = "read"
  /\ wire.bytes = <<>>
  /\ messages' = EndBubble(messages, assistantId)
  /\ Settle("done")
  /\ UNCHANGED << draft, clock, assistantId, fullText, decoder, wire, received, requests, lastSubmit >>
  /\ UNCHANGED pageFrame

\* reader.read() rejects: the stream was errored or the connection broke
ReadFail ==
  /\ ppc = "read"
  /\ CatchSubmit
  /\ UNCHANGED << draft, clock, assistantId, fullText, decoder, wire, received, requests, lastSubmit >>
  /\ UNCHANGED pageFrame

PageNext ==
  \/ SetDraft
  \/ SubmitIgnored
  \/ Submit
  \/ FetchNotOk
  \/ FetchNoBody
  \/ FetchStream
  \/ FetchFail
  \/ TextOk
  \/ TextFail
  \/ ReadChunk
  \/ ReadDone
  \/ ReadFail

PageSpec == PageInit /\ [][PageNext]_vars

(***************************************************************************)
(* Properties.                                                             *)
(***************************************************************************)
Terminal == {"closed", "errored"}

\* The text an upstream event carries: the delta of an output_text_delta
\* event when it is a string, nothing otherwise.
DeltaText(event) ==
  IF event.type = "raw_model_stream_event" /\ event.dtype = "output_text_delta"
       /\ event.delta.t = "string"
  THEN event.delta.s
  ELSE <<>>

UpstreamText(events) == Flatten([i \in 1..Len(events) |-> DeltaText(events[i])])

IsPrefix(a, b) == Len(a) <= Len(b) /\ a = SubSeq(b, 1, Len(a))

\* C1: the bytes the relay has enqueued, concatenated, are the UTF-8 bytes of
\* the concatenation of the text deltas the agent run has delivered, in
\* order; other events and malformed or empty deltas add nothing.  Once the
\* client has cancelled, enqueue throws, and the bytes stay a prefix.
C1_RelayContent ==
  \A r \in Requests :
    /\ ~ctl[r].cancelled => Flatten(out[r]) = Encode(UpstreamText(upstream[r]))
    /\ IsPrefix(Flatten(out[r]), Encode(UpstreamText(upstream[r])))

\* C1 witness: a closed, uncancelled stream whose run delivered MaxEvents
\* events, among them a two-byte text delta and an event that is no text delta.
C1_Witness ==
  \E r \in Requests :
    /\ ctl[r].state = "closed" /\ ~ctl[r].cancelled
    /\ Len(upstream[r]) = MaxEvents
    /\ \E i, j \in 1..Len(upstream[r]) :
         /\ ~IsTextDelta(upstream[r][i])
         /\ IsTextDelta(upstream[r][j]) /\ upstream[r][j].delta.s[1] = "e'"

\* C2: in every step each controller has received at most one terminal call
\* (close or error), and nothing is enqueued once it has received one or the
\* stream has left the readable state.
C2_OneTerminalAction ==
  [][\A r \in Requests :
       /\ Len(ctl'[r].calls) <= 1
       /\ (ctl[r].calls # <<>> \/ ctl[r].state \in Terminal) => out'[r] = out[r]]_vars

\* C3: a relay that has ended has left the stream closed or errored, and once
\* the event sequence has ended (agentRun.completed is awaited) the stream
\* eventually is closed or errored.
C3_NoHang ==
  \A r \in Requests :
    /\ [](ctl[r].phase = "finished" => ctl[r].state \in Terminal)
    /\ (ctl[r].phase = "completed") ~> (ctl[r].state \in Terminal)

\* C3 witness: the event sequence ended without any response_done event and
\* the stream was closed by controller.close().
C3_Witness ==
  \E r \in Requests :
    /\ ctl[r].calls = <<"close">> /\ ctl[r].state = "closed" /\ ~ctl[r].cancelled
    /\ upstream[r] # <<>>
    /\ \A i \in 1..Len(upstream[r]) : upstream[r][i].dtype # "response_done"

\* C4: at most one request reads count = 0 and runs the seed insert loop.
C4_SeedLoopOnce ==
  Cardinality({r \in Requests : sawEmpty[r] /\ seedIdx[r] > 0}) <= 1

\* The request ran the seed loop of ensureRagTableAndSeed to its end.
SeedLoopDone(r) ==
  sawEmpty[r] /\ seedIdx[r] = Len(SeedRows) /\ pc[r] # "insert" /\ fault[r] # "query"

RowsOf(seq) == {seq[i] : i \in 1..Len(seq)}

\* C5: the table never holds two rows with one id, every row equals the seed
\* row of its id, and once a request has run its seed loop to the end the
\* table holds exactly the seed rows, however the loops interleaved.
C5_SeedingHarmless ==
  /\ \A i, j \in 1..Len(table) : table[i].id = table[j].id => i = j
  /\ RowsOf(table) \subseteq RowsOf(SeedRows)
  /\ (\E r \in Requests : SeedLoopDone(r)) => RowsOf(table) = RowsOf(SeedRows)

\* C5 witness: every request read count = 0 and ran its seed loop to the end.
C5_Witness == \A r \in Requests : SeedLoopDone(r)

\* C6: release is called once, on the way out, by a request that obtained a
\* connection and never by one that did not; the pool's number of
\* checked-out connections is the number of requests holding one, so it is
\* zero once every request has returned.
C6_ConnectionReturned ==
  /\ \A r \in Requests :
       releases[r] = (IF pc[r] = "returned" /\ client[r] THEN 1 ELSE 0)
  /\ checkedOut = Cardinality({r \in Requests : client[r] /\ pc[r] # "returned"})
  /\ (\A r \in Requests : pc[r] = "returned") => checkedOut = 0

\* C6 witness: all requests have returned, one with the streaming response,
\* one with the validation error, each having held a connection.
C6_Witness ==
  /\ \A r \in Requests : pc[r] = "returned" /\ client[r]
  /\ \E r \in Requests : resp[r].kind = "stream"
  /\ \E r \in Requests : resp[r].status = 400

\* C7: a request whose generation call (run) failed was answered with a
\* server-error JSON body and no streamed response.
C7_GenerationFailureIsJson ==
  \A r \in Requests :
    fault[r] = "run" => resp[r].kind = "json" /\ resp[r].status >= 500

\* The body carries a non-empty string `message`.
HasMessage(b) ==
  b.parses /\ b.json = "object" /\ b.message.t = "string" /\ b.message.s # <<>>

\* C8: every returned request whose body carries no non-empty string message
\* was answered with a 4xx status and a JSON {error} body.
C8_InvalidShapeIsClientError ==
  \A r \in Requests :
    (pc[r] = "returned" /\ ~HasMessage(body[r])) =>
      /\ resp[r].status \in 400..499
      /\ resp[r].kind = "json" /\ resp[r].error # ""

EmptyMessage == Body(TRUE, "object", JsString(<<>>))

DownstreamWork == {"schema", "index", "count", "readFile", "insert", "embed", "similarity", "run"}

C10_DatastoreUnreachable ==
  \A r \in Requests :
    /\ fault[r] = "connect" =>
         /\ resp[r] = JsonErrorDetails(500, ConnectFailedText, "connect ECONNREFUSED")
         /\ log[r] = <<"connect">>
         /\ ctl[r] = NoStream
    /\ resp[r].error = ConnectFailedText => fault[r] = "connect"

\* C10 witness: a request's connect failed while another request, connected,
\* went on to retrieval.
C10_Witness ==
  \E r, q \in Requests :
    /\ fault[r] = "connect" /\ pc[r] = "returned"
    /\ "similarity" \in RowsOf(log[q])

MissingConfigTexts == {"Missing Gemini API key", "Missing OpenAI API key", "Missing DATABASE_URL"}

\* C11: with a credential or DATABASE_URL missing, every request that has
\* entered POST has returned 500 with a JSON {error} naming what is missing,
\* in its first step: it holds no connection, has read no body and started
\* no embedding call, query or generation run, and nothing was tried twice.
C11_MissingConfigImmediate ==
  (~cfg.embeddingKey \/ ~cfg.chatKey \/ ~cfg.databaseUrl) =>
    /\ checkedOut = 0 /\ table = <<>>
    /\ \A r \in Requests :
         pc[r] # "start" =>
           /\ pc[r] = "returned"
           /\ resp[r].kind = "json" /\ resp[r].status = 500
           /\ resp[r].error \in MissingConfigTexts /\ resp[r].details = ""
           /\ log[r] = <<>> /\ ~client[r] /\ releases[r] = 0
           /\ fault[r] = "none" /\ ctl[r] = NoStream

\* C11 witness: the credentials are set, DATABASE_URL is not, and every
\* request was answered "Missing DATABASE_URL".
C11_Witness ==
  /\ cfg.embeddingKey /\ cfg.chatKey /\ ~cfg.databaseUrl
  /\ \A r \in Requests : pc[r] = "returned" /\ resp[r].error = "Missing DATABASE_URL"

\* C14: a request that did not read count = 0 has read no seed file and
\* issued no insert; and the step in which a request gets its count from a
\* table that holds a row leaves the table as it is and reads no seed file.
C14_BootstrapNoOp ==
  /\ [](\A r \in Requests :
          ~sawEmpty[r] =>
            /\ seedIdx[r] = 0
            /\ \A i \in 1..Len(log[r]) : log[r][i] \notin {"readFile", "insert"})
  /\ [][\A r \in Requests :
          (pc[r] = "count" /\ Len(table) > 0 /\ pc'[r] # "count") =>
            /\ table' = table
            /\ ~sawEmpty'[r]
            /\ pc'[r] \in {"embed", "returned"}]_vars

\* C14 witness: a request went from its count to the embedding call without
\* seeding, on a table another request had seeded.
C14_Witness ==
  \E r \in Requests :
    /\ ~sawEmpty[r] /\ "embed" \in RowsOf(log[r])
    /\ Len(table) = Len(SeedRows)

\* C17: the step in which the client cancels the stream while the relay is
\* iterating ends the relay (the agent run is released without a further
\* event), and a cancelled relay takes no further event from the agent run.
C17_CancelStopsReading ==
  [][\A r \in Requests :
       /\ (ctl[r].phase = "iterate" /\ ~ctl[r].cancelled /\ ctl'[r].cancelled)
            => ctl'[r].phase = "finished"
       /\ (ctl[r].phase = "iterate" /\ ctl[r].cancelled) => upstream'[r] = upstream[r]]_vars


\* C13: upserting a batch is idempotent and keyed by id.  Applying the batch
\* to the table it produced changes nothing; the result has one row per id;
\* the rows of the table keep their places, those whose id is not in the
\* batch unchanged, and every id of the batch holds the section, text and
\* vector of its last row in the batch.
Ids(rows) == { rows[i].id : i \in 1..Len(rows) }

LastWithId(rows, id) ==
  rows[CHOOSE i \in 1..Len(rows) :
         rows[i].id = id /\ \A j \in (i + 1)..Len(rows) : rows[j].id # id]

C13_UpsertIdempotent ==
  fn = "upsert" =>
    /\ UpsertAll(result, args.rows) = result
    /\ DistinctIds(result)
    /\ Ids(result) = Ids(args.table) \cup Ids(args.rows)
    /\ \A i \in 1..Len(args.table) :
         /\ result[i].id = args.table[i].id
         /\ args.table[i].id \notin Ids(args.rows) => result[i] = args.table[i]
    /\ \A i \in 1..Len(result) :
         result[i].id \in Ids(args.rows) => result[i] = LastWithId(args.rows, result[i].id)

\* C13 witness: a batch replaced the stored row of an id by other content
\* next to a row whose id the batch does not hold.
C13_Witness ==
  /\ fn = "upsert"
  /\ Len(args.table) = 2
  /\ Len(result) = 2
  /\ args.table[1].id \in Ids(args.rows)
  /\ result[1] # args.table[1]
  /\ args.table[2].id \notin Ids(args.rows)

\* C15: the similarity query returns min(k, rows of the table) rows, each a
\* row of the table and none twice, in order of non-decreasing distance to
\* the question vector, and no row left out is strictly closer than a row
\* returned.
StoredRow(t, chunk) == t[CHOOSE i \in 1..Len(t) : t[i].id = chunk.id]

BlockLen == 8

C16_ContextAssembly ==
  fn = "context" =>
    LET cs == args.chunks
        n == Len(cs)
    IN  /\ Len(result) = (IF n = 0 THEN 0 ELSE (BlockLen + 1) * n - 1)
        /\ \A i \in 1..n :
             LET at == (BlockLen + 1) * (i - 1)
             IN  /\ SubSeq(result, at + 1, at + BlockLen) =
                      << "Chunk ", NumStr(i), " [", cs[i].section, " | ", cs[i].id, "]:\n",
                         cs[i].chunk_text >>
                 /\ i < n => result[at + BlockLen + 1] = "\n\n"

\* C16 witness: a context of two chunks.
C16_Witness ==
  /\ fn = "context"
  /\ Len(args.chunks) = 2
  /\ Len(result) > BlockLen

\* C19, as the specification states it for the in-memory ranking: vectors of
\* different lengths never yield a score.
C19_MismatchFailsLoudly ==
  (fn = "cosineSimilarity" /\ Len(args.a) # Len(args.b)) => result.kind \notin {"number", "NaN"}

\* C12: the bulk upsert is atomic.  Once an INSERT of the batch has failed
\* the table is the table of before the call, during the call and after it;
\* until COMMIT takes effect no row of the batch is in the table; and when
\* the function returns the table is the one the whole batch produces, every
\* id of the batch holding the content of its last row in the batch.
C12_BulkUpsertAtomic ==
  /\ serr = "insert" => table = before
  /\ (spc \in {"begin", "insert"} \/ serr \in {"readFile", "begin", "commit"}) => table = before
  /\ spc = "done" =>
       /\ table = UpsertAll(before, srows)
       /\ \A i \in 1..Len(srows) :
            \E n \in 1..Len(table) : table[n] = LastWithId(srows, srows[i].id)

\* C12 witness: the function threw the error of an INSERT that failed after
\* an earlier INSERT of the batch had changed the table the transaction saw.
C12_Witness ==
  /\ spc = "threw"
  /\ serr = "insert"
  /\ sidx >= 1
  /\ UpsertRow(before, srows[1]) # before

\* C20, as the specification states it: when the reading of the response
\* fails after text has reached the bubble, the bubble of the submission
\* ends with the text received so far.
Bubble == messages[CHOOSE i \in 1..Len(messages) : messages[i].id = assistantId]

C20_TruncatedAnswerKept ==
  (ppc = "idle" /\ outcome = "threw" /\ wire.ok /\ wire.hasBody /\ fullText # <<>>)
    => Bubble.text = fullText

\* C21: a non-OK response is read whole as the error message.  When onSubmit
\* has handled the body, the bubble shows the string `error` of a JSON body,
\* followed by a newline and `details` when details is a non-empty string,
\* and the raw text of a body that does not parse; however the handling
\* ended the bubble is not streaming, and no chunk is ever read from a
\* non-OK response.
NotOkSettled == ppc = "idle" /\ ~wire.ok /\ wire.hasBody

C21_NotOkResponse ==
  /\ NotOkSettled =>
       /\ ~Bubble.isStreaming
       /\ outcome \in {"notOk", "threw"}
       /\ outcome = "notOk" =>
            LET b == wire.raw
            IN  /\ (b.parses /\ IsString(b.error)) =>
                     Bubble.text =
                       (IF IsString(b.details) /\ b.details.s # <<>>
                        THEN b.error.s \o <<"\n">> \o b.details.s
                        ELSE b.error.s)
                /\ ~b.parses => Bubble.text = b.text
  /\ (~wire.ok /\ wire.hasBody) => (ppc # "read" /\ received = <<>>)

\* C21 witness: the three shapes of the claim have been handled: error with
\* details, error alone, and a body that is not JSON.
C21_Witness ==
  /\ NotOkSettled
  /\ outcome = "notOk"
  /\ ~wire.raw.parses
  /\ wire.raw.text # <<>>
  /\ Bubble.text = wire.raw.text
  /\ Len(requests) = 2
  /\ \E i \in 1..Len(messages) :
       messages[i].id # assistantId /\ messages[i].text = <<"E", "\n", "D">>

\* C22: on an OK response with a body, as long as no read has failed, the
\* one bubble of the submission shows the text of the bytes received so far
\* (the bytes of an unfinished character held back), and is streaming while
\* chunks are read; when the body ends the bubble holds the text whose bytes
\* are all the chunks in order, is not streaming, and is not the error text.
\* The steps of a submission change no other message and add none.
StreamUnbroken == wire.ok /\ wire.hasBody /\ outcome \in {"pending", "done"}

C22_StreamCompletion ==
  /\ [](StreamUnbroken =>
          /\ Cardinality({ i \in 1..Len(messages) : messages[i].id = assistantId }) = 1
          /\ Bubble.role = "assistant"
          /\ Bubble.text = DecodeStream(Flatten(received)).text
          /\ Encode(Bubble.text) \o decoder = Flatten(received)
          /\ ppc = "read" => Bubble.isStreaming
          /\ outcome = "done" =>
               /\ ppc = "idle"
               /\ ~Bubble.isStreaming
               /\ Encode(Bubble.text) = Flatten(received)
               /\ (Bubble.text # GenericText))
  /\ [][ppc # "idle" =>
          /\ Len(messages') = Len(messages)
          /\ \A i \in 1..Len(messages) :
               messages[i].id # assistantId => messages'[i] = messages[i]]_vars

\* C22 witness: the second submission's body was read to its end in chunks
\* one of which ended inside a character.
C22_Witness ==
  /\ StreamUnbroken
  /\ outcome = "done"
  /\ Len(requests) = 2
  /\ Len(received) >= 2
  /\ \E i \in 1..Len(received) : DecodeStream(received[i]).pending # <<>>
  /\ Bubble.text = <<"a", "e'">>

\* C23, as the specification states it: a request to which
\* ensureRagTableAndSeed has returned, and which is at its embedding call or
\* its similarity query, finds every row of the seed file in the table.
C23_StoreCompleteAtRetrieval ==
  \A r \in Requests :
    pc[r] \in {"embed", "similarity"} => RowsOf(SeedRows) \subseteq RowsOf(table)

\* C24: the steps a request starts come in the order connect, body,
\* bootstrap (schema, index, count, readFile, inserts), embedding call,
\* similarity query, generation run, and none but the seed INSERT is started
\* twice; the bootstrap is started only for a body with a non-empty string
\* message; the relay takes events only after the run was started; a failed
\* embedding call is followed by no query and no run, a failed query, file
\* read or body read by no run; and once a step has failed the request
\* starts no further step and relays nothing more.
StepRank(op) ==
  CASE op = "connect" -> 1
    [] op = "body" -> 2
    [] op = "schema" -> 3
    [] op = "index" -> 4
    [] op = "count" -> 5
    [] op = "readFile" -> 6
    [] op = "insert" -> 7
    [] op = "embed" -> 8
    [] op = "similarity" -> 9
    [] op = "run" -> 10

Started(r, op) == \E i \in 1..Len(log[r]) : log[r][i] = op

C24_PipelineOrder ==
  /\ [](\A r \in Requests :
          /\ \A i \in 1..(Len(log[r]) - 1) :
               \/ StepRank(log[r][i]) < StepRank(log[r][i + 1])
               \/ (log[r][i] = "insert" /\ log[r][i + 1] = "insert")
          /\ Started(r, "schema") => HasMessage(body[r])
          /\ (ctl[r] # NoStream \/ upstream[r] # <<>> \/ out[r] # <<>>) => Started(r, "run")
          /\ fault[r] = "embed" => (~Started(r, "similarity") /\ ~Started(r, "run"))
          /\ fault[r] \in {"connect", "json", "destructure", "readFile", "query"} =>
               (~Started(r, "run") /\ pc[r] = "returned" /\ ctl[r] = NoStream))
  /\ [][\A r \in Requests :
          fault[r] # "none" =>
            (log'[r] = log[r] /\ upstream'[r] = upstream[r] /\ out'[r] = out[r])]_vars

\* C24 witness: one request ran the whole pipeline, seeding included, and
\* relayed a delta, while the embedding call of the other failed.
C24_Witness ==
  /\ Started("r1", "insert")
  /\ Started("r1", "run")
  /\ out["r1"] # <<>>
  /\ fault["r2"] = "embed"
  /\ pc["r2"] = "returned"

\* C25: a request answered with the streaming Response has released its
\* client by then, once, and holds none while its relay runs or after a
\* delta was enqueued; and no step of the relay, nor the client's cancel,
\* touches the pool, the table or the list of the steps POST started.
C25_NoConnectionWhileStreaming ==
  /\ [](\A r \in Requests :
          (resp[r].kind = "stream" \/ ctl[r] # NoStream \/ out[r] # <<>> \/ upstream[r] # <<>>) =>
            /\ pc[r] = "returned"
            /\ client[r]
            /\ releases[r] = 1
            /\ checkedOut <= Cardinality({ q \in Requests \ {r} : client[q] /\ releases[q] = 0 }))
  /\ [][\A r \in Requests :
          (ctl[r] # NoStream /\ (ctl'[r] # ctl[r] \/ upstream'[r] # upstream[r] \/ out'[r] # out[r])) =>
            UNCHANGED << table, checkedOut, releases, client, log, pool >>]_vars

\* C25 witness: deltas are being relayed for both requests and no client is
\* checked out.
C25_Witness ==
  /\ \A r \in Requests : ctl[r].phase = "iterate" /\ out[r] # <<>>
  /\ checkedOut = 0

\* C26: isLoading is true exactly while an accepted submission is being
\* handled; when its handling has ended, by whichever outcome, no bubble is
\* streaming; and a step taken while isLoading is true or the trimmed draft
\* is empty sends no request and adds no message.
C26_SubmissionSettles ==
  /\ [](/\ isLoading <=> ppc # "idle"
        /\ Len(requests) > 0 => (outcome = "pending" <=> ppc # "idle")
        /\ (ppc = "idle" /\ Len(requests) > 0) =>
             /\ outcome \in {"notOk", "noBody", "done", "threw"}
             /\ ~Bubble.isStreaming
             /\ \A i \in 1..Len(messages) : ~messages[i].isStreaming)
  /\ [][(isLoading \/ Trim(draft) = <<>>) =>
          (requests' = requests /\ Len(messages') = Len(messages))]_vars

\* C26 witness: two submissions were handled, the second ended by a throw
\* after text had been shown, and a submit with an empty draft followed.
C26_Witness ==
  /\ Len(requests) = 2
  /\ ppc = "idle"
  /\ outcome = "threw"
  /\ fullText # <<>>
  /\ lastSubmit = "ignored"
  /\ ~isLoading
====
